---- MODULE Spec2Model ----
(***************************************************************************)
(* Model of integral_convolve.py: the discretised Fredholm operator on a   *)
(* torus grid, the cyclic-group permutation representations, and the       *)
(* driver's reconstruction  approx = sum_i filter[i] * reps[i].            *)
(*                                                                         *)
(* Lists and matrices are 0-based functions, as in the Python source.      *)
(* Floating-point values are modelled as exact values (see "Numbers").     *)
(***************************************************************************)
EXTENDS Integers, FiniteSets, Sequences, TLC

VARIABLES N, kernel, lamb, R, r, self_interact,
          pc, group1, kron_reps, reps, filter, approx, i, A, sol, kernel_calls

vars == <<N, kernel, lamb, R, r, self_interact,
          pc, group1, kron_reps, reps, filter, approx, i, A, sol, kernel_calls>>

(***************************************************************************)
(* Bounds of the model.                                                    *)
(***************************************************************************)
\* largest grid size of the group-representation specification
MaxN == 3
\* the minor radius r is drawn from 1..MaxRadius, the major radius R from
\* 2..MaxRadius+1: proper tori (r < R), the horn torus (r = R) and, from
\* MaxRadius = 3 on, spindle tori (r > R)
MaxRadius == 2
\* lambda is drawn from -MaxLamb..MaxLamb
MaxLamb == 1
\* coefficients of an arbitrary filter vector are built from 0..MaxCoef
MaxCoef == 1

\* Grid sizes whose angles 2*pi*k/N have integer sines and cosines, so that
\* torus points with integer radii are computed exactly.
GridSizes == {1, 2, 4}

Range(n) == 0 .. (n - 1)

(***************************************************************************)
(* Numbers.  A float is modelled exactly as                                *)
(*   [cls |-> "fin", terms |-> T]   the finite value  sum of m * atom(k,d) *)
(*                                  over the triples <<k, d, m>> in T      *)
(*   [cls |-> "pinf" / "ninf" / "nan", terms |-> {}]   +inf, -inf, NaN.    *)
(* Atoms: <<"one",0>> = 1, <<"ln",d>> = ln(sqrt d), <<"exp",d>> =          *)
(* exp(-sqrt d), and the same three multiplied by pi^2/4:                  *)
(* <<"pi2",0>>, <<"pi2ln",d>>, <<"pi2exp",d>>.                             *)
(***************************************************************************)
Fin(T) == [cls |-> "fin", terms |-> T]
NonFin(c) == [cls |-> c, terms |-> {}]
NaN == NonFin("nan")
Num(c) == Fin(IF c = 0 THEN {} ELSE {<<"one", 0, c>>})
IsFinite(x) == x.cls = "fin"

Neg(c) == IF c = "pinf" THEN "ninf" ELSE IF c = "ninf" THEN "pinf" ELSE c

\* float * int  (IEEE: inf * 0 = NaN, NaN * anything = NaN)
Scale(x, s) ==
    IF x.cls = "fin" THEN Fin({<<t[1], t[2], t[3] * s>> : t \in {u \in x.terms : s # 0}})
    ELSE IF x.cls = "nan" \/ s = 0 THEN NaN
    ELSE IF s > 0 THEN x ELSE NonFin(Neg(x.cls))

CoefOf(x, k, d) ==
    IF \E t \in x.terms : t[1] = k /\ t[2] = d
    THEN (CHOOSE t \in x.terms : t[1] = k /\ t[2] = d)[3]
    ELSE 0

\* float + float  (IEEE: inf + (-inf) = NaN, NaN + anything = NaN)
Add(x, y) ==
    IF x.cls = "fin" /\ y.cls = "fin" THEN
        LET atoms == {<<t[1], t[2]>> : t \in x.terms \cup y.terms}
            sum(a) == CoefOf(x, a[1], a[2]) + CoefOf(y, a[1], a[2])
        IN Fin({<<a[1], a[2], sum(a)>> : a \in {b \in atoms : sum(b) # 0}})
    ELSE IF x.cls = "nan" \/ y.cls = "nan" THEN NaN
    ELSE IF x.cls = "fin" THEN y
    ELSE IF y.cls = "fin" THEN x
    ELSE IF x.cls = y.cls THEN x ELSE NaN

\* multiplication of a kernel value by c * (pi^2/4), c an integer
Pi2Kind(k) == IF k = "one" THEN "pi2" ELSE IF k = "ln" THEN "pi2ln" ELSE "pi2exp"
MulPi2(x, c) ==
    IF x.cls = "fin" THEN Fin({<<Pi2Kind(t[1]), t[2], t[3] * c>> : t \in {u \in x.terms : c # 0}})
    ELSE IF x.cls = "nan" \/ c = 0 THEN NaN
    ELSE IF c > 0 THEN x ELSE NonFin(Neg(x.cls))

(***************************************************************************)
(* Group representations (get_cyclic_reps, get_cyclic_product_reps).       *)
(***************************************************************************)
\* Python list indexing: a negative index counts from the end.
PyIndex(list, len, idx) == IF idx < 0 THEN list[len + idx] ELSE list[idx]

\* a variant that appends the rows for i = 0, ..., N-1 (identity not reversed)
ForwardIdentity(n) ==
    [k \in Range(n) |-> [j \in Range(n) |-> IF j = k THEN 1 ELSE 0]]

\* A: rows of the reversed identity, appended for i = N-1, ..., 0
ReversedIdentity(n) ==
    [k \in Range(n) |-> [j \in Range(n) |-> IF j = (n - 1) - k THEN 1 ELSE 0]]

\* perms[i] = np.array([A[i-j] for j in range(N)])
CyclicPerms(n) ==
    LET A0 == ReversedIdentity(n)
    IN [p \in Range(n) |-> [j \in Range(n) |-> PyIndex(A0, n, p - j)]]

\* a variant that returns perms as built, the identity left at the end
get_cyclic_reps_unrotated(n) == CyclicPerms(n)

\* I = perms.pop(-1); return [I] + perms
get_cyclic_reps(n) ==
    LET perms == CyclicPerms(n)
    IN [k \in Range(n) |-> IF k = 0 THEN perms[n - 1] ELSE perms[k - 1]]

\* np.kron of two n x n matrices
Kron(m1, m2, n) ==
    [row \in Range(n * n) |-> [col \in Range(n * n) |->
        m1[row \div n][col \div n] * m2[row % n][col % n]]]

\* a variant with the loops exchanged: mat2 outer, mat1 inner
KronRepsSwapped(g1, g2, n) ==
    [k \in Range(n * n) |-> Kron(g1[k % n], g2[k \div n], n)]

\* reps after the double loop: mat1 outer, mat2 inner
KronReps(g1, g2, n) ==
    [k \in Range(n * n) |-> Kron(g1[k \div n], g2[k % n], n)]

\* np.argmax(mat[:,0]): the first row index holding the column's maximum
ArgmaxCol0(mat, len) ==
    CHOOSE p \in Range(len) :
        /\ \A q \in Range(len) : mat[q][0] <= mat[p][0]
        /\ \A q \in Range(p) : mat[q][0] < mat[p][0]

\* sorted(list, key=...): stable, ascending by key; keys[x] is the key of list[x]
SortedByKey(list, len, keys) ==
    LET rank(x) == Cardinality({y \in Range(len) :
                        keys[y] < keys[x] \/ (keys[y] = keys[x] /\ y < x)})
    IN [p \in Range(len) |-> list[CHOOSE x \in Range(len) : rank(x) = p]]

Transpose(mat, len) ==
    [row \in Range(len) |-> [col \in Range(len) |-> mat[col][row]]]

\* a variant that returns sorted_reps without transposing
SortedNotTransposed(unsorted, n) ==
    LET keys == [x \in Range(n * n) |-> ArgmaxCol0(unsorted[x], n * n)]
    IN SortedByKey(unsorted, n * n, keys)

\* sorted_reps = sorted(reps, key=lambda mat: np.argmax(mat[:,0]));
\* return [rep.T for rep in sorted_reps]
SortedTransposed(unsorted, n) ==
    LET keys == [x \in Range(n * n) |-> ArgmaxCol0(unsorted[x], n * n)]
        sorted_reps == SortedByKey(unsorted, n * n, keys)
    IN [k \in Range(n * n) |-> Transpose(sorted_reps[k], n * n)]

(***************************************************************************)
(* Geometry and kernels.  Angles are counted in quarter turns (pi/2), so   *)
(* the grid step 2*pi/N is 4/N quarter turns for N in GridSizes.           *)
(***************************************************************************)
Cos(q) == CASE q % 4 = 0 -> 1 [] q % 4 = 2 -> -1 [] OTHER -> 0
Sin(q) == CASE q % 4 = 1 -> 1 [] q % 4 = 3 -> -1 [] OTHER -> 0

\* 2*np.pi/N, in quarter turns
GridStep(n) == 4 \div n

torus_point(theta, phi, R0, r0) ==
    << (R0 + r0 * Cos(theta)) * Cos(phi),
       (R0 + r0 * Cos(theta)) * Sin(phi),
       r0 * Sin(theta) >>

\* np.linalg.norm(point2-point1)**2
NormSq(point1, point2) ==
    (point2[1] - point1[1]) * (point2[1] - point1[1])
    + (point2[2] - point1[2]) * (point2[2] - point1[2])
    + (point2[3] - point1[3]) * (point2[3] - point1[3])

\* a variant that guards the zero distance and returns 0 there
log_kernel_guarded(point1, point2) ==
    LET d == NormSq(point1, point2)
    IN IF d = 0 \/ d = 1 THEN Num(0) ELSE Fin({<<"ln", d, 1>>})

\* np.log(norm): -inf at distance 0, 0 at distance 1
log_kernel(point1, point2) ==
    LET d == NormSq(point1, point2)
    IN IF d = 0 THEN NonFin("ninf")
       ELSE IF d = 1 THEN Num(0)
       ELSE Fin({<<"ln", d, 1>>})

\* np.exp(-norm): 1 at distance 0
exp_kernel(point1, point2) ==
    LET d == NormSq(point1, point2)
    IN IF d = 0 THEN Num(1) ELSE Fin({<<"exp", d, 1>>})

square_distance_kernel(point1, point2) == Num(NormSq(point1, point2))

Kernels == {"square_distance_kernel", "exp_kernel", "log_kernel"}

kernel_func(name, point1, point2) ==
    CASE name = "log_kernel" -> log_kernel(point1, point2)
      [] name = "exp_kernel" -> exp_kernel(point1, point2)
      [] OTHER -> square_distance_kernel(point1, point2)

(***************************************************************************)
(* Matrix assembly.  matrix_entry yields the entry and the index pairs at  *)
(* which it called the kernel.                                             *)
(***************************************************************************)
\* a variant whose weight uses phi2 in place of theta2
matrix_entry_phi_weight(i0, j0, n, name, R0, r0, si) ==
    LET theta1 == (i0 \div n) * GridStep(n)
        phi1 == (i0 % n) * GridStep(n)
        point1 == torus_point(theta1, phi1, R0, r0)
        theta2 == (j0 \div n) * GridStep(n)
        phi2 == (j0 % n) * GridStep(n)
        point2 == torus_point(theta2, phi2, R0, r0)
    IN IF i0 = j0 /\ ~si
       THEN [entry |-> Num(0), calls |-> {}]
       ELSE [entry |-> MulPi2(kernel_func(name, point1, point2),
                              (GridStep(n) * GridStep(n)) * r0 * (R0 + r0 * Cos(phi2))),
             calls |-> {<<i0, j0>>}]

\* a variant without the self_interact test: the kernel is always evaluated
matrix_entry_always_kernel(i0, j0, n, name, R0, r0, si) ==
    LET theta1 == (i0 \div n) * GridStep(n)
        phi1 == (i0 % n) * GridStep(n)
        point1 == torus_point(theta1, phi1, R0, r0)
        theta2 == (j0 \div n) * GridStep(n)
        phi2 == (j0 % n) * GridStep(n)
        point2 == torus_point(theta2, phi2, R0, r0)
    IN [entry |-> MulPi2(kernel_func(name, point1, point2),
                         (GridStep(n) * GridStep(n)) * r0 * (R0 + r0 * Cos(theta2))),
        calls |-> {<<i0, j0>>}]

matrix_entry(i0, j0, n, name, R0, r0, si) ==
    LET theta1 == (i0 \div n) * GridStep(n)
        phi1 == (i0 % n) * GridStep(n)
        point1 == torus_point(theta1, phi1, R0, r0)
        theta2 == (j0 \div n) * GridStep(n)
        phi2 == (j0 % n) * GridStep(n)
        point2 == torus_point(theta2, phi2, R0, r0)
    IN IF i0 = j0 /\ ~si
       THEN [entry |-> Num(0), calls |-> {}]
       ELSE [entry |-> MulPi2(kernel_func(name, point1, point2),
                              (GridStep(n) * GridStep(n)) * r0 * (R0 + r0 * Cos(theta2))),
             calls |-> {<<i0, j0>>}]

full_matrix(n, name, lamb0, R0, r0, si) ==
    [row \in Range(n * n) |-> [col \in Range(n * n) |->
        LET v == Scale(matrix_entry(row, col, n, name, R0, r0, si).entry, lamb0)
        IN IF row = col THEN Add(v, Num(1)) ELSE v]]

full_matrix_calls(n, name, R0, r0, si) ==
    UNION {matrix_entry(row, col, n, name, R0, r0, si).calls :
              row \in Range(n * n), col \in Range(n * n)}

\* a variant that reads column 0 instead of row 0: matrix_entry(j, 0, ...)
get_filter_column(n, name, lamb0, R0, r0, si) ==
    [j \in Range(n * n) |->
        IF j = 0
        THEN Add(Scale(matrix_entry(0, 0, n, name, R0, r0, si).entry, lamb0), Num(1))
        ELSE Scale(matrix_entry(j, 0, n, name, R0, r0, si).entry, lamb0)]

\* a variant that forgets the identity's 1 in the first coefficient
get_filter_no_identity(n, name, lamb0, R0, r0, si) ==
    [j \in Range(n * n) |-> Scale(matrix_entry(0, j, n, name, R0, r0, si).entry, lamb0)]

get_filter(n, name, lamb0, R0, r0, si) ==
    [j \in Range(n * n) |->
        IF j = 0
        THEN Add(Scale(matrix_entry(0, 0, n, name, R0, r0, si).entry, lamb0), Num(1))
        ELSE Scale(matrix_entry(0, j, n, name, R0, r0, si).entry, lamb0)]

get_filter_calls(n, name, R0, r0, si) ==
    UNION {matrix_entry(0, j, n, name, R0, r0, si).calls : j \in Range(n * n)}

(***************************************************************************)
(* Driver: the reconstruction loop  approx = approx + filter[i]*reps[i].   *)
(***************************************************************************)
ZeroMatrix(len) == [row \in Range(len) |-> [col \in Range(len) |-> Num(0)]]

\* a variant that overwrites instead of accumulating: approx = coef * rep
AddScaledOverwrite(acc, coef, rep, len) ==
    [row \in Range(len) |-> [col \in Range(len) |-> Scale(coef, rep[row][col])]]

\* approx + coef * rep, elementwise
AddScaled(acc, coef, rep, len) ==
    [row \in Range(len) |-> [col \in Range(len) |->
        Add(acc[row][col], Scale(coef, rep[row][col]))]]

Empty == << >>

\* reps = get_cyclic_product_reps(N): group1 = group2 = get_cyclic_reps(N), the
\* Kronecker products of all pairs, the sort, the transposes.  group1 and
\* kron_reps record the callee's locals (the factor group, the unsorted list).
GetReps(next) ==
    /\ pc = "reps"
    /\ group1' = get_cyclic_reps(N)
    /\ kron_reps' = KronReps(group1', group1', N)
    /\ reps' = SortedTransposed(kron_reps', N)
    /\ pc' = next
    /\ UNCHANGED <<N, kernel, lamb, R, r, self_interact, filter, approx, i, A, sol,
                   kernel_calls>>

\* one iteration of  for i in range(N**2): approx = approx + filter[i]*reps[i]
Accumulate ==
    /\ pc = "loop"
    /\ i < N * N
    /\ approx' = AddScaled(approx, filter[i], reps[i], N * N)
    /\ i' = i + 1
    /\ UNCHANGED <<N, kernel, lamb, R, r, self_interact, pc, group1, kron_reps, reps,
                   filter, A, sol, kernel_calls>>

(***************************************************************************)
(* Specification of the reconstruction alone: any grid size up to MaxN and *)
(* an arbitrary coefficient vector in place of get_filter's result.        *)
(***************************************************************************)
\* coefficient vectors base + stride*k, optionally with a non-finite entry
\* (+inf or NaN) in the first or in the last place
AnyFilter(n) ==
    {[k \in Range(n * n) |-> IF k = u THEN NonFin(c) ELSE Num(base + stride * k)] :
        base \in 0 .. MaxCoef, stride \in 0 .. MaxCoef,
        u \in {-1, 0, n * n - 1}, c \in {"pinf", "nan"}}

InitLoop ==
    /\ N \in 1 .. MaxN
    /\ kernel = "none" /\ lamb = 0 /\ R = 1 /\ r = 1 /\ self_interact = TRUE
    /\ pc = "reps"
    /\ group1 = Empty /\ kron_reps = Empty /\ reps = Empty
    /\ filter \in AnyFilter(N)
    /\ approx = ZeroMatrix(N * N)
    /\ i = 0
    /\ A = Empty /\ sol = "unset" /\ kernel_calls = {}

NextLoop == GetReps("loop") \/ Accumulate

SpecLoop == InitLoop /\ [][NextLoop]_vars

(***************************************************************************)
(* The driver with get_filter, the validation matrix and the solve.        *)
(***************************************************************************)
\* filter = get_filter(N, kernel, lamb, R, r, self_interact); approx = zeros
GetFilter ==
    /\ pc = "filter"
    /\ filter' = get_filter(N, kernel, lamb, R, r, self_interact)
    /\ kernel_calls' = kernel_calls \cup get_filter_calls(N, kernel, R, r, self_interact)
    /\ approx' = ZeroMatrix(N * N)
    /\ i' = 0
    /\ pc' = "loop"
    /\ UNCHANGED <<N, kernel, lamb, R, r, self_interact, group1, kron_reps, reps, A, sol>>

\* A = full_matrix(N, kernel, lamb, R, r, self_interact): the validation path
FullMatrix ==
    /\ pc = "loop"
    /\ i = N * N
    /\ A' = full_matrix(N, kernel, lamb, R, r, self_interact)
    /\ kernel_calls' = kernel_calls \cup full_matrix_calls(N, kernel, R, r, self_interact)
    /\ pc' = "solve"
    /\ UNCHANGED <<N, kernel, lamb, R, r, self_interact, group1, kron_reps, reps,
                   filter, approx, i, sol>>

\* np.linalg.inv(approx) @ g_vec, by what it yields: "finite" (every entry a
\* finite number), "nan" (NaN entries) or "LinAlgError" (inv raises on an exactly
\* singular matrix).  A 1 x 1 matrix [[x]] has inverse [[1/x]]: 1/inf = 0.  With
\* more rows a non-finite entry makes the LU factors, and every entry of the
\* product, NaN.  Whether a finite matrix is singular is left open.
SolveOutcomes(mat, len) ==
    IF len = 1
    THEN IF mat[0][0].cls = "nan" THEN {"nan"}
         ELSE IF mat[0][0].cls # "fin" THEN {"finite"}
         ELSE IF mat[0][0].terms = {} THEN {"LinAlgError"}
         ELSE {"finite"}
    ELSE IF \E row \in Range(len), col \in Range(len) : ~IsFinite(mat[row][col])
         THEN {"nan"}
         ELSE {"finite", "LinAlgError"}

Solve ==
    /\ pc = "solve"
    /\ sol' \in SolveOutcomes(approx, N * N)
    /\ pc' = "done"
    /\ UNCHANGED <<N, kernel, lamb, R, r, self_interact, group1, kron_reps, reps,
                   filter, approx, i, A, kernel_calls>>

Init ==
    /\ N \in GridSizes
    /\ kernel \in Kernels
    /\ lamb \in -MaxLamb .. MaxLamb
    /\ R \in 2 .. (MaxRadius + 1)
    /\ r \in 1 .. MaxRadius
    /\ self_interact \in BOOLEAN
    /\ pc = "reps"
    /\ group1 = Empty /\ kron_reps = Empty /\ reps = Empty
    /\ filter = Empty /\ approx = Empty /\ i = 0
    /\ A = Empty /\ sol = "unset" /\ kernel_calls = {}

Next == GetReps("filter") \/ GetFilter \/ Accumulate \/ FullMatrix \/ Solve

Spec == Init /\ [][Next]_vars

(***************************************************************************)
(* Helpers for the properties.                                             *)
(***************************************************************************)
IsMatrix(mat, len) ==
    /\ DOMAIN mat = Range(len)
    /\ \A row \in Range(len) : DOMAIN mat[row] = Range(len)

\* entries in {0,1}, exactly one 1 in each row and in each column
IsPermutationMatrix(mat, len) ==
    /\ IsMatrix(mat, len)
    /\ \A row \in Range(len), col \in Range(len) : mat[row][col] \in {0, 1}
    /\ \A row \in Range(len) : Cardinality({col \in Range(len) : mat[row][col] = 1}) = 1
    /\ \A col \in Range(len) : Cardinality({row \in Range(len) : mat[row][col] = 1}) = 1

RECURSIVE DotFrom(_, _, _, _, _, _)
DotFrom(m1, m2, row, col, k, len) ==
    IF k = len THEN 0
    ELSE m1[row][k] * m2[k][col] + DotFrom(m1, m2, row, col, k + 1, len)

MatMul(m1, m2, len) ==
    [row \in Range(len) |-> [col \in Range(len) |-> DotFrom(m1, m2, row, col, 0, len)]]

IdentityMatrix(len) ==
    [row \in Range(len) |-> [col \in Range(len) |-> IF row = col THEN 1 ELSE 0]]

\* the flattened index of (theta index t, phi index p) shifted by (a, b)
ShiftIndex(idx, a, b, n) == (((idx \div n) + a) % n) * n + (((idx % n) + b) % n)

\* the flattened index of the componentwise difference col - row (mod n)
DiffIndex(row, col, n) ==
    (((col \div n) - (row \div n)) % n) * n + (((col % n) - (row % n)) % n)

RepsBuilt == pc # "reps"
LoopFinished == pc # "reps" /\ pc # "filter" /\ i = N * N
FilterFinite == \A k \in Range(N * N) : IsFinite(filter[k])

(***************************************************************************)
(* Properties of the group representations.                                *)
(***************************************************************************)
\* C3: get_cyclic_reps(N) returns exactly N matrices of size N x N, each a
\* permutation matrix, and result[a] * result[b] = result[(a+b) mod N].
C3_CyclicRepsFormGroup ==
    RepsBuilt =>
        /\ DOMAIN group1 = Range(N)
        /\ \A a \in Range(N) : IsPermutationMatrix(group1[a], N)
        /\ \A a \in Range(N), b \in Range(N) :
              MatMul(group1[a], group1[b], N) = group1[(a + b) % N]

C3_Witness ==
    /\ RepsBuilt
    /\ N = 3
    /\ MatMul(group1[1], group1[2], N) = group1[0]
    /\ group1[1] # group1[2]

\* C4: get_cyclic_product_reps(N) returns exactly N^2 matrices, each an
\* N^2 x N^2 permutation matrix, and the matrix at index 0 is the identity.
C4_ProductRepsPermutations ==
    RepsBuilt =>
        /\ DOMAIN reps = Range(N * N)
        /\ \A k \in Range(N * N) : IsPermutationMatrix(reps[k], N * N)
        /\ reps[0] = IdentityMatrix(N * N)

C4_Witness ==
    /\ RepsBuilt
    /\ N = 3
    /\ reps[0] = IdentityMatrix(9)
    /\ reps[8] # IdentityMatrix(9)

\* C5: the returned list is in ascending order of the group element: the matrix
\* at index a*N + b is the transpose of kron(get_cyclic_reps(N)[a],
\* get_cyclic_reps(N)[b]), and no two indices hold the same matrix.
C5_ProductRepsOrdered ==
    RepsBuilt =>
        /\ \A a \in Range(N), b \in Range(N) :
              reps[a * N + b] = Transpose(Kron(group1[a], group1[b], N), N * N)
        /\ \A k \in Range(N * N), m \in Range(N * N) : reps[k] = reps[m] => k = m

C5_Witness ==
    /\ RepsBuilt
    /\ N = 3
    /\ reps[1 * N + 2] = Transpose(Kron(group1[1], group1[2], N), N * N)
    /\ reps[1 * N + 2] # Kron(group1[1], group1[2], N)

\* C10: the sort key argmax(mat[:,0]) of kron(get_cyclic_reps(N)[a],
\* get_cyclic_reps(N)[b]) is a*N + b, so the keys are pairwise distinct and the
\* list is already in ascending key order: sorting leaves it unchanged.
C10_SortKeysAlreadyAscending ==
    RepsBuilt =>
        /\ \A a \in Range(N), b \in Range(N) :
              /\ ArgmaxCol0(Kron(group1[a], group1[b], N), N * N) = a * N + b
              /\ ArgmaxCol0(kron_reps[a * N + b], N * N) = a * N + b
        /\ \A k \in Range(N * N) : reps[k] = Transpose(kron_reps[k], N * N)

C10_Witness ==
    /\ RepsBuilt
    /\ N = 3
    /\ ArgmaxCol0(kron_reps[5], N * N) = 5
    /\ reps[5] = Transpose(kron_reps[5], N * N)

(***************************************************************************)
(* Properties of the reconstruction loop.                                  *)
(***************************************************************************)
ApproxIsConvolution ==
    \A row \in Range(N * N), col \in Range(N * N) :
        approx[row][col] = filter[DiffIndex(row, col, N)]

\* C9 as stated: for ANY coefficient vector of length N^2 the loop leaves
\* approx[i,j] = filter[((t2-t1) mod N)*N + ((p2-p1) mod N)].
C9_AnyFilterConvolution == LoopFinished => ApproxIsConvolution

\* C9 amended: the same for any coefficient vector of finite values.  (A
\* non-finite coefficient is multiplied by the zeros of its representation
\* and turns entries that belong to other coefficients into NaN.)
C9_FiniteFilterConvolution == (LoopFinished /\ FilterFinite) => ApproxIsConvolution

C9_Witness ==
    /\ LoopFinished
    /\ FilterFinite
    /\ N = 3
    /\ filter[5] # filter[4]
    /\ approx[4][0] = filter[8]
    /\ approx[0][5] = filter[5]

(***************************************************************************)
(* Properties of the assembled matrices and of the driver.                 *)
(***************************************************************************)
FilterBuilt == pc \in {"loop", "solve", "done"}
FullBuilt == pc \in {"solve", "done"}
DiagonalCalls == {c \in kernel_calls : c[1] = c[2]}

\* C1 as stated: approx = sum_k filter[k]*reps[k] equals full_matrix entry by
\* entry, for every N, kernel, lambda, R, r and self_interact.
C1_ReconstructionIdentity == FullBuilt => approx = A

\* C1 amended: when every filter coefficient is finite, approx equals
\* full_matrix on the rows 0..N-1 (the grid points with theta index 0) for the
\* three distance kernels; the other rows are not determined by row 0.
C1_ReconstructionOnThetaZeroRows ==
    (FullBuilt /\ FilterFinite) =>
        \A row \in Range(N), col \in Range(N * N) : approx[row][col] = A[row][col]

C1_Witness ==
    /\ FullBuilt
    /\ FilterFinite
    /\ N = 4
    /\ kernel = "square_distance_kernel"
    /\ lamb = -1
    /\ approx[3] = A[3]
    /\ approx[3] # approx[0]
    /\ approx[4] # A[4]

\* C2 as stated: M = full_matrix(...) is block-circulant under Z_N x Z_N:
\* M[i,j] = M[i+(a,b), j+(a,b)] for every shift (a,b).
C2_BlockCirculant ==
    FullBuilt =>
        \A row \in Range(N * N), col \in Range(N * N), a \in Range(N), b \in Range(N) :
            A[row][col] = A[ShiftIndex(row, a, b, N)][ShiftIndex(col, a, b, N)]

\* C2 amended: for the three distance kernels M is invariant under the shifts
\* of phi alone: M[i,j] = M[i+(0,b), j+(0,b)] (equal numbers, or both
\* undefined); a shift of theta changes the weight r(R + r cos theta2) and
\* the distance.
C2_PhiShiftInvariant ==
    FullBuilt =>
        \A row \in Range(N * N), col \in Range(N * N), b \in Range(N) :
            A[row][col] = A[ShiftIndex(row, 0, b, N)][ShiftIndex(col, 0, b, N)]

C2_Witness ==
    /\ FullBuilt
    /\ N = 4
    /\ kernel = "exp_kernel"
    /\ lamb = 1
    /\ A[0][6] = A[ShiftIndex(0, 0, 3, N)][ShiftIndex(6, 0, 3, N)]
    /\ A[0][6] # A[0][5]
    /\ A[0][6] # A[ShiftIndex(0, 1, 0, N)][ShiftIndex(6, 1, 0, N)]

\* C6: get_filter(N,...) is a vector of length N^2 equal to row 0 of
\* full_matrix(N,...) called with the same arguments.
C6_FilterIsRowZero ==
    FullBuilt =>
        /\ DOMAIN filter = Range(N * N)
        /\ IsMatrix(A, N * N)
        /\ \A j \in Range(N * N) : filter[j] = A[0][j]
        /\ filter[0] = Add(Scale(matrix_entry(0, 0, N, kernel, R, r, self_interact).entry,
                                 lamb), Num(1))
        /\ \A j \in 1 .. (N * N - 1) :
              filter[j] = Scale(matrix_entry(0, j, N, kernel, R, r, self_interact).entry, lamb)

C6_Witness ==
    /\ FullBuilt
    /\ N = 4
    /\ kernel = "log_kernel"
    /\ lamb = -1
    /\ filter[0] = A[0][0]
    /\ filter[5] = A[0][5]
    /\ filter[5] # filter[0]
    /\ filter[5] # Num(0)

\* C7: with self_interact = False, matrix_entry(i,i,...) is exactly 0 and the
\* kernel is not evaluated for it, for every kernel; so every diagonal entry
\* of full_matrix is exactly 1 and filter[0] is exactly 1.
C7_NoSelfInteraction ==
    ~self_interact =>
        /\ \A idx \in Range(N * N) :
              matrix_entry(idx, idx, N, kernel, R, r, self_interact)
                  = [entry |-> Num(0), calls |-> {}]
        /\ DiagonalCalls = {}
        /\ FilterBuilt => filter[0] = Num(1)
        /\ FullBuilt => \A idx \in Range(N * N) : A[idx][idx] = Num(1)

C7_Witness ==
    /\ ~self_interact
    /\ pc = "done"
    /\ N = 4
    /\ kernel = "log_kernel"
    /\ lamb = -1
    /\ A[15][15] = Num(1)
    /\ filter[0] = Num(1)
    /\ <<0, 1>> \in kernel_calls
    /\ <<15, 14>> \in kernel_calls

UndefinedAtZero == kernel = "log_kernel"

\* what C8 says short of the solution: with self_interact true and a kernel
\* undefined at zero distance, every diagonal entry of full_matrix, filter[0]
\* and the diagonal of approx are undefined, and nothing raises; with
\* self_interact false no diagonal entry evaluates the kernel.
UndefinedPropagates ==
    /\ (self_interact /\ UndefinedAtZero) =>
          /\ FilterBuilt => ~IsFinite(filter[0])
          /\ LoopFinished =>
                \A idx \in Range(N * N) : ~IsFinite(approx[idx][idx])
          /\ FullBuilt => \A idx \in Range(N * N) : ~IsFinite(A[idx][idx])
          /\ FilterBuilt => <<0, 0>> \in kernel_calls
          /\ sol # "LinAlgError"
    /\ ~self_interact =>
          /\ DiagonalCalls = {}
          /\ FilterBuilt => IsFinite(filter[0])
          /\ FullBuilt => \A idx \in Range(N * N) : IsFinite(A[idx][idx])

====
